---- MODULE Spec2Model ----
(***************************************************************************)
(* Model of the forecasting pipeline of Docker-ML:                         *)
(*   - the upload facade  CustomDataForecastService                        *)
(*       (src/app/services/custom_data_service.py),                        *)
(*   - the bundled facade ForecastService over ARIMAModel                  *)
(*       (src/app/services/forecast_service.py, src/app/models/            *)
(*        arima_model.py),                                                 *)
(*   - the request handlers of src/app/main.py that call them.             *)
(*                                                                         *)
(* A timestamp is a pair <<day, ns>>: day is the number of days since      *)
(* 1970-01-01 (the epoch of pandas), ns the nanoseconds past midnight.     *)
(* Uploaded date cells are midnights (ns = 0); a numeric column converted  *)
(* by pd.to_datetime is <<0, v>> (v nanoseconds after the epoch).          *)
(***************************************************************************)
EXTENDS Integers, Sequences, FiniteSets, TLC

(***************************************************************************)
(* Bounds of the model and constants of the program.                       *)
(***************************************************************************)
\* largest forecast horizon a request asks for (main.py admits 1..100 / 1..60)
MaxSteps == 2

\* number of requests served in one behaviour
MaxRequests == 3

\* rows of the persisted bundled series (monthly, first month 1949-01)
BundledRows == 12

\* custom_data_service.py:45 and :92  -- minimum number of rows
MinRows == 10

\* custom_data_service.py:159  -- observations needed for a seasonal model
SeasonalMinObs == 24

\* custom_data_service.py:160  -- largest seasonal period
MaxSeasonalPeriod == 12

(***************************************************************************)
(* Calendar: proleptic Gregorian, days counted from 1970-01-01.            *)
(***************************************************************************)
IsLeap(y) == (y % 4 = 0) /\ ((y % 100 # 0) \/ (y % 400 = 0))

DaysInMonth(y, m) ==
  IF m = 2 THEN (IF IsLeap(y) THEN 29 ELSE 28)
  ELSE IF m \in {4, 6, 9, 11} THEN 30 ELSE 31

\* day number of day d of month mp (0 = March ... 11 = February) of the March-based
\* year yy
DayNumFromMarch(yy, mp, d) ==
  (yy \div 400) * 146097
    + ((yy % 400) * 365 + (yy % 400) \div 4 - (yy % 400) \div 100
       + (153 * mp + 2) \div 5 + d - 1)
    - 719468

\* day number of the civil date y-m-d
DayNum(y, m, d) ==
  DayNumFromMarch(IF m <= 2 THEN y - 1 ELSE y, IF m > 2 THEN m - 3 ELSE m + 9, d)

\* year of its 400-year era of the day doe of the era
YearOfEra(doe) == (doe - doe \div 1460 + doe \div 36524 - doe \div 146096) \div 365

\* civil date of day doy (0 = 1 March) of the March-based year yy
CivilOfDay(yy, doy) ==
  [y |-> yy + (IF (5 * doy + 2) \div 153 >= 10 THEN 1 ELSE 0),
   m |-> IF (5 * doy + 2) \div 153 < 10
         THEN (5 * doy + 2) \div 153 + 3 ELSE (5 * doy + 2) \div 153 - 9,
   d |-> doy - (153 * ((5 * doy + 2) \div 153) + 2) \div 5 + 1]

\* civil date [y, m, d] of a day number
Civil(z) ==
  CivilOfDay(((z + 719468) \div 146097) * 400 + YearOfEra((z + 719468) % 146097),
             ((z + 719468) % 146097)
               - (365 * YearOfEra((z + 719468) % 146097)
                  + YearOfEra((z + 719468) % 146097) \div 4
                  - YearOfEra((z + 719468) % 146097) \div 100))

\* Timestamp.weekday(): Monday = 0 ... Sunday = 6 (1970-01-01 was a Thursday)
Weekday(z) == (z + 3) % 7

Min2(a, b) == IF a <= b THEN a ELSE b

\* months since year 0 of a civil date, and the day d of such a month clipped to the
\* month's end
MonthIndexOf(c) == c.y * 12 + (c.m - 1)

DayOnMonth(mi, d) ==
  DayNum(mi \div 12, (mi % 12) + 1, Min2(d, DaysInMonth(mi \div 12, (mi % 12) + 1)))

\* the day number k months after the civil date c
AddMonthsCivil(c, k) == DayOnMonth(MonthIndexOf(c) + k, c.d)

\* t + pd.DateOffset(months = k): same day of month, clipped to the month's end
AddMonths(t, k) == <<AddMonthsCivil(Civil(t[1]), k), t[2]>>

\* t + pd.DateOffset(years = k)
AddYears(t, k) == AddMonths(t, 12 * k)

\* t + pd.Timedelta(days = k)
AddDays(t, k) == <<t[1] + k, t[2]>>

\* lexicographic order of timestamps
TsLess(a, b) == a[1] < b[1] \/ (a[1] = b[1] /\ a[2] < b[2])

TsLeq(a, b) == a = b \/ TsLess(a, b)

\* strftime('%Y-%m-%d'): the civil date [y, m, d], the time of day dropped
FmtYMD(t) == Civil(t[1])

\* strftime('%Y-%m'): [y, m]
FmtYM(t) == [k \in {"y", "m"} |-> Civil(t[1])[k]]

(***************************************************************************)
(* Frequencies.  A frequency alias of pandas is the record                 *)
(*   [n |-> multiple, kind |-> rule, anchor |-> suffix]                    *)
(* e.g. 'D' = [1,"D",0], '2D' = [2,"D",0], 'W' = [1,"W",0],                *)
(* 'W-MON' = [1,"W",1], 'MS' = [1,"MS",0], 'YS-JAN' = [1,"YS",1].          *)
(* anchor 0 is "no suffix"; a weekday suffix is 1 (MON) .. 7 (SUN), a      *)
(* month suffix 1 (JAN) .. 12 (DEC), a week-of-month suffix 10*week+day.   *)
(* Two aliases are the same string exactly when the records are equal.     *)
(***************************************************************************)
Freq(n, kind, anchor) == [n |-> n, kind |-> kind, anchor |-> anchor]

\* the four aliases the code itself writes (lines 145-151, 177-184)
FreqD == Freq(1, "D", 0)

FreqW == Freq(1, "W", 0)

FreqMS == Freq(1, "MS", 0)

FreqYS == Freq(1, "YS", 0)

TickKinds == {"D", "ns"}

QuarterKinds == {"QS", "QE", "BQS", "BQE"}

YearKinds == {"YS", "YE", "BYS", "BYE"}

StartKinds == {"MS", "QS", "YS"}

EndKinds == {"ME", "QE", "YE"}

BStartKinds == {"BMS", "BQS", "BYS"}

BEndKinds == {"BME", "BQE", "BYE"}

\* weekday a 'W' alias is anchored on: no suffix means Sunday
WeekAnchor(f) == IF f.anchor = 0 THEN 6 ELSE f.anchor - 1

\* month a yearly or quarterly alias is anchored on (default JAN for starts, DEC for ends)
MonthAnchor(f) ==
  IF f.anchor # 0 THEN f.anchor
  ELSE IF f.kind \in StartKinds \cup BStartKinds THEN 1 ELSE 12

\* does month m hold a date of the (month-based) offset f
MonthQualifies(f, m) ==
  IF f.kind \in QuarterKinds THEN m % 3 = MonthAnchor(f) % 3
  ELSE IF f.kind \in YearKinds THEN m = MonthAnchor(f)
  ELSE TRUE

\* the day of the month of the date of offset f in a month of dim days whose first
\* day falls on weekday w1 and whose last on wl
OffsetDom(f, dim, w1, wl) ==
  IF f.kind \in StartKinds THEN 1
  ELSE IF f.kind \in EndKinds THEN dim
  ELSE IF f.kind \in BStartKinds
       THEN (IF w1 = 5 THEN 3 ELSE IF w1 = 6 THEN 2 ELSE 1)
  ELSE IF f.kind \in BEndKinds
       THEN (IF wl = 5 THEN dim - 1 ELSE IF wl = 6 THEN dim - 2 ELSE dim)
  ELSE \* "WOM": week f.anchor \div 10 (1-based), weekday f.anchor % 10
       1 + (((f.anchor % 10) - w1 + 7) % 7) + 7 * ((f.anchor \div 10) - 1)

\* the day number of the date of offset f inside month m of year y
OffsetDayInMonth(f, y, m) ==
  DayNum(y, m, OffsetDom(f, DaysInMonth(y, m), Weekday(DayNum(y, m, 1)),
                         Weekday(DayNum(y, m, DaysInMonth(y, m)))))

RECURSIVE MonthSearch(_, _, _)
\* first date of the month-based offset f on or after day, looking from month index mi
MonthSearch(f, day, mi) ==
  IF /\ MonthQualifies(f, (mi % 12) + 1)
     /\ OffsetDayInMonth(f, mi \div 12, (mi % 12) + 1) >= day
  THEN OffsetDayInMonth(f, mi \div 12, (mi % 12) + 1)
  ELSE MonthSearch(f, day, mi + 1)

\* first day >= day that is on the offset f   (offset.rollforward on the date part)
FirstOnOrAfter(f, day) ==
  IF f.kind \in TickKinds THEN day
  ELSE IF f.kind = "W" THEN day + ((WeekAnchor(f) - Weekday(day) + 7) % 7)
  ELSE IF f.kind = "B" THEN (IF Weekday(day) <= 4 THEN day ELSE day + (7 - Weekday(day)))
  ELSE MonthSearch(f, day, MonthIndexOf(Civil(day)))

RollForward(f, t) == <<FirstOnOrAfter(f, t[1]), t[2]>>

RECURSIVE StepDays(_, _, _)
\* k unit steps of the (non-tick) offset f from a day that is on the offset
StepDays(f, day, k) ==
  IF k = 0 THEN day ELSE StepDays(f, FirstOnOrAfter(f, day + 1), k - 1)

\* t + offset f, for t on the offset
Step(f, t) ==
  IF f.kind = "D" THEN <<t[1] + f.n, t[2]>>
  ELSE IF f.kind = "ns" THEN <<t[1], t[2] + f.n>>
  ELSE <<StepDays(f, t[1], f.n), t[2]>>

RECURSIVE RangeFrom(_, _, _)
RangeFrom(f, t, periods) ==
  IF periods <= 0 THEN << >> ELSE <<t>> \o RangeFrom(f, Step(f, t), periods - 1)

\* pd.date_range(start = start, periods = periods, freq = f)
DateRange(start, periods, f) == RangeFrom(f, RollForward(f, start), periods)

RECURSIVE RangeUntil(_, _, _)
RangeUntil(f, t, end) ==
  IF TsLess(end, t) THEN << >> ELSE <<t>> \o RangeUntil(f, Step(f, t), end)

\* pd.date_range(start = start, end = end, freq = f)
DateRangeBetween(start, end, f) == RangeUntil(f, RollForward(f, start), end)

(***************************************************************************)
(* pd.infer_freq on a sorted DatetimeIndex (pandas/tseries/frequencies.py, *)
(* _FrequencyInferer.get_freq), called at custom_data_service.py:138.      *)
(* The result is a frequency, NoFreq (Python None) or RaisedFreq (the      *)
(* ValueError "Need at least 3 dates to infer frequency").                 *)
(***************************************************************************)
NoFreq == Freq(0, "None", 0)

RaisedFreq == Freq(0, "ValueError", 0)

SeqToSet(s) == {s[i] : i \in 1..Len(s)}

\* np.diff of the day parts, the nanosecond parts, the month and year numbers
DayDiffs(idx) == [i \in 1..(Len(idx) - 1) |-> idx[i + 1][1] - idx[i][1]]

NsDiffs(idx) == [i \in 1..(Len(idx) - 1) |-> idx[i + 1][2] - idx[i][2]]

MonthIndex(t) == MonthIndexOf(Civil(t[1]))

MonthDiffs(idx) ==
  [i \in 1..(Len(idx) - 1) |-> MonthIndex(idx[i + 1]) - MonthIndex(idx[i])]

YearDiffs(idx) ==
  [i \in 1..(Len(idx) - 1) |-> Civil(idx[i + 1][1]).y - Civil(idx[i][1]).y]

SetMin(S) == CHOOSE x \in S : \A y \in S : x <= y

\* index._is_unique for a sorted index
IndexIsUnique(idx) == \A i \in 1..(Len(idx) - 1) : idx[i] # idx[i + 1]

\* the month positions a date of civil date c and weekday wd is compatible with:
\* calendar / business end, calendar / business start
PositionsOf(c, wd) ==
  {p \in {"ce", "be", "cs", "bs"} :
     \/ p = "cs" /\ c.d = 1
     \/ p = "bs" /\ (c.d = 1 \/ (c.d <= 3 /\ wd = 0))
     \/ p = "ce" /\ c.d = DaysInMonth(c.y, c.m)
     \/ p = "be" /\ \/ c.d = DaysInMonth(c.y, c.m)
                    \/ (DaysInMonth(c.y, c.m) - c.d < 3 /\ wd = 4)}

DatePositions(t) == PositionsOf(Civil(t[1]), Weekday(t[1]))

\* the position reported among those all dates are compatible with
FirstPosition(S) ==
  IF "ce" \in S THEN "ce"
  ELSE IF "be" \in S THEN "be"
  ELSE IF "cs" \in S THEN "cs"
  ELSE IF "bs" \in S THEN "bs"
  ELSE "None"

\* month_position_check: "ce", "be", "cs", "bs" or "None"
MonthPositionCheck(idx) ==
  FirstPosition({p \in {"ce", "be", "cs", "bs"} :
                   \A i \in 1..Len(idx) : p \in DatePositions(idx[i])})

\* the rule prefix for a month position: prefix "Y", "Q" or "M"
PositionRule(prefix, pos) ==
  IF pos = "cs" THEN (IF prefix = "Y" THEN "YS" ELSE IF prefix = "Q" THEN "QS" ELSE "MS")
  ELSE IF pos = "bs" THEN (IF prefix = "Y" THEN "BYS" ELSE IF prefix = "Q" THEN "BQS" ELSE "BMS")
  ELSE IF pos = "ce" THEN (IF prefix = "Y" THEN "YE" ELSE IF prefix = "Q" THEN "QE" ELSE "ME")
  ELSE (IF prefix = "Y" THEN "BYE" ELSE IF prefix = "Q" THEN "BQE" ELSE "BME")

\* _is_business_daily
IsBusinessDaily(idx) ==
  /\ SeqToSet(DayDiffs(idx)) = {1, 3}
  /\ \A i \in 2..Len(idx) :
       \/ (Weekday(idx[i][1]) = 0 /\ idx[i][1] - idx[i - 1][1] = 3)
       \/ /\ Weekday(idx[i][1]) > 0
          /\ Weekday(idx[i][1]) <= 4
          /\ idx[i][1] - idx[i - 1][1] = 1

\* the anchor 10 * week + weekday of the dates' weekdays wds and weeks of the month
\* weeks (those below 4), or 0 when there is no such rule
WomRule(wds, weeks) ==
  IF Cardinality(wds) > 1 \/ Cardinality(weeks) # 1 THEN 0
  ELSE 10 * ((CHOOSE w \in weeks : TRUE) + 1) + (CHOOSE w \in wds : TRUE)

\* _get_wom_rule
WomAnchor(idx) ==
  WomRule({Weekday(idx[i][1]) : i \in 1..Len(idx)},
          {w \in {(Civil(idx[i][1]).d - 1) \div 7 : i \in 1..Len(idx)} : w < 4})

\* the quarterly anchor month of a series whose first date is in month m
QuarterAnchor(m) == CASE m % 3 = 0 -> 12 [] m % 3 = 2 -> 11 [] OTHER -> 10

\* _infer_daily_rule on the sets of year, month and day differences yd, md, dd, the
\* month position pos, the month of the first date and the week-of-month anchor wom
DailyRule(idx, yd, md, dd, pos, month, wom) ==
  IF /\ Cardinality(yd) = 1
     /\ Cardinality({Civil(idx[i][1]).m : i \in 1..Len(idx)}) = 1
     /\ pos # "None"
  THEN Freq(SetMin(yd), PositionRule("Y", pos), month)
  ELSE IF Cardinality(md) = 1 /\ SetMin(md) % 3 = 0 /\ pos # "None"
  THEN Freq(SetMin(md) \div 3, PositionRule("Q", pos), QuarterAnchor(month))
  ELSE IF Cardinality(md) = 1 /\ pos # "None"
  THEN Freq(SetMin(md), PositionRule("M", pos), 0)
  ELSE IF Cardinality(dd) = 1 /\ Cardinality(SeqToSet(NsDiffs(idx))) = 1
  THEN (IF SetMin(dd) % 7 = 0
        THEN Freq(SetMin(dd) \div 7, "W", Weekday(idx[1][1]) + 1)
        ELSE Freq(SetMin(dd), "D", 0))
  ELSE IF IsBusinessDaily(idx) THEN Freq(1, "B", 0)
  ELSE IF wom # 0 THEN Freq(1, "WOM", wom)
  ELSE NoFreq

\* _infer_daily_rule: the smallest gap is a whole number of days
InferDailyRule(idx) ==
  DailyRule(idx, SeqToSet(YearDiffs(idx)), SeqToSet(MonthDiffs(idx)),
            SeqToSet(DayDiffs(idx)), MonthPositionCheck(idx),
            Civil(idx[1][1]).m, WomAnchor(idx))

\* the gaps <<days, nanoseconds>> between neighbours, and the smallest of a set of gaps
Deltas(idx) ==
  [i \in 1..(Len(idx) - 1) |-> <<idx[i + 1][1] - idx[i][1], idx[i + 1][2] - idx[i][2]>>]

MinDelta(S) == CHOOSE x \in S : \A y \in S : TsLeq(x, y)

\* get_freq on the set of gaps ds of a unique index
InferFromDeltas(idx, ds) ==
  IF MinDelta(ds)[2] = 0 THEN InferDailyRule(idx)
  ELSE IF Cardinality(ds) > 1 THEN NoFreq
  ELSE Freq(MinDelta(ds)[2], "ns", 0)

\* pd.infer_freq(index)
InferFreq(idx) ==
  IF Len(idx) < 3 THEN RaisedFreq
  ELSE IF ~IndexIsUnique(idx) THEN NoFreq
  ELSE InferFromDeltas(idx, SeqToSet(Deltas(idx)))

(***************************************************************************)
(* The median-gap fallback, custom_data_service.py:141-151.                *)
(***************************************************************************)
RECURSIVE InsertAsc(_, _)
InsertAsc(x, s) ==
  IF s = << >> THEN <<x>>
  ELSE IF x <= Head(s) THEN <<x>> \o s
  ELSE <<Head(s)>> \o InsertAsc(x, Tail(s))

RECURSIVE SortAsc(_)
SortAsc(s) == IF s = << >> THEN << >> ELSE InsertAsc(Head(s), SortAsc(Tail(s)))

\* the median of the sorted gaps g in whole days: the mean of the two middle gaps
\* when their number is even, rounded down by .days
MedianOf(g) ==
  IF Len(g) % 2 = 1 THEN g[(Len(g) + 1) \div 2]
  ELSE (g[Len(g) \div 2] + g[(Len(g) \div 2) + 1]) \div 2

\* line 142: time_diffs.median() ... .days
MedianDays(idx) == MedianOf(SortAsc(DayDiffs(idx)))

\* lines 144-151
FreqFromMedian(days) ==
  IF days <= 1 THEN FreqD
  ELSE IF days <= 7 THEN FreqW
  ELSE IF days <= 31 THEN FreqMS
  ELSE FreqYS

\* lines 139-151: the frequency infer_freq gave, or the fallback when it gave None
FreqOrFallback(f, idx) ==
  IF f = NoFreq THEN FreqFromMedian(MedianDays(idx)) ELSE f

\* lines 138-151: the frequency train_model_and_predict settles on
DetectFreq(idx) == FreqOrFallback(InferFreq(idx), idx)

(***************************************************************************)
(* Uploaded tables.  An uploaded file is                                   *)
(*   [ok    |-> the bytes decode as UTF-8 and parse as CSV,                *)
(*    cols  |-> the columns, each [name |-> its header,                    *)
(*              kw   |-> the name contains one of the keywords             *)
(*                       'date','time','month','year','day',               *)
(*              kind |-> "date" | "num" | "text"],                         *)
(*    dates |-> the cells of every "date" column (day numbers),            *)
(*    vals  |-> the cells of every "num" column]                           *)
(* A "date" column holds strings that parse as dates (dtype object), a     *)
(* "num" column numbers (a numeric dtype), a "text" column strings that    *)
(* parse neither as a date nor as a number.  Missing is an empty cell.     *)
(* Once line 72 has run the frame also has                                 *)
(*    stamps |-> the cells of its 'Date' column: dtype datetime64, kind    *)
(*               "datetime".                                               *)
(* A number of the Value column is <<q, r>>, standing for q days' worth of *)
(* nanoseconds plus r: what a timestamp <<day, ns>> is as nanoseconds      *)
(* since the epoch, and <<0, v>> for a number v of a file.                 *)
(***************************************************************************)
Missing == -1

NaT == <<Missing, Missing>>

\* a missing number
NaN == <<Missing, Missing>>

\* the headers in use that contain a keyword (line 57); 'Value', 'Label', 'When'
\* contain none
KeywordNames == {"Date", "Time", "Monthly_Sales"}

HasKeyword(name) == name \in KeywordNames

Col(name, kind) == [name |-> name, kw |-> HasKeyword(name), kind |-> kind]

NumRows(table) == Len(table.dates)

\* a row check that lets a table one row short pass
TooFewRowsOffByOne(n) == n < MinRows - 1

\* lines 45 and 92: fewer rows than the minimum
TooFewRows(n) == n < MinRows

\* line 39: fewer columns than a date and a value
TooFewColumns(n) == n < 2

RECURSIVE ScanColumns(_, _, _, _)
\* lines 55-62: the loop over data.columns; 0 stands for None
ScanColumns(cols, i, date_col, value_col) ==
  IF i > Len(cols) THEN <<date_col, value_col>>
  ELSE IF cols[i].kw THEN ScanColumns(cols, i + 1, i, value_col)
  ELSE IF cols[i].kind = "num"
       THEN ScanColumns(cols, i + 1, date_col, IF value_col = 0 THEN i ELSE value_col)
  ELSE ScanColumns(cols, i + 1, date_col, value_col)

\* lines 65-68: the first column for the date, the second for the value, when the
\* loop found none
DefaultColumns(found) ==
  <<IF found[1] = 0 THEN 1 ELSE found[1], IF found[2] = 0 THEN 2 ELSE found[2]>>

\* lines 52-68: <<date_col, value_col>> as positions in data.columns
InferColumns(cols) == DefaultColumns(ScanColumns(cols, 1, 0, 0))

\* line 72: pd.to_datetime raises on a column it cannot parse
ToDatetimeRaises(col) == col.kind = "text"

\* line 72: pd.to_datetime(data[date_col]); numbers are nanoseconds since the epoch
ToDatetime(table, col) ==
  [i \in 1..NumRows(table) |->
     IF col.kind = "num"
     THEN (IF table.vals[i] = Missing THEN NaT ELSE <<0, table.vals[i]>>)
     ELSE (IF table.dates[i] = Missing THEN NaT ELSE <<table.dates[i], 0>>)]

\* line 72: data['Date'] = ... -- the frame gets the column 'Date', which replaces a
\* column of the file that has this name
WithDateColumn(table, stamps) ==
  [ok |-> table.ok,
   cols |-> [i \in DOMAIN table.cols |->
               IF table.cols[i].name = "Date" THEN Col("Date", "datetime")
               ELSE table.cols[i]],
   dates |-> table.dates, vals |-> table.vals, stamps |-> stamps]

\* line 80: pd.to_numeric raises on strings that are no numbers; a datetime64 column
\* it takes
ToNumericRaises(col) == col.kind \notin {"num", "datetime"}

\* line 80: pd.to_numeric(data[value_col]), data being the frame line 72 left; a
\* datetime64 column becomes its int64 nanoseconds (no NaN: the row of a NaT goes
\* with its date at line 88)
ToNumeric(frame, col) ==
  IF col.kind = "datetime" THEN frame.stamps
  ELSE [i \in 1..NumRows(frame) |->
          IF frame.vals[i] = Missing THEN NaN ELSE <<0, frame.vals[i]>>]

RECURSIVE DropNa(_, _, _)
\* line 88: data[['Date', 'Value']].dropna(), from row i on
DropNa(ts, vs, i) ==
  IF i > Len(ts) THEN << >>
  ELSE IF ts[i] = NaT \/ vs[i] = NaN THEN DropNa(ts, vs, i + 1)
  ELSE <<[t |-> ts[i], v |-> vs[i]]>> \o DropNa(ts, vs, i + 1)

RECURSIVE InsertRow(_, _)
InsertRow(r, s) ==
  IF s = << >> THEN <<r>>
  ELSE IF TsLess(r.t, Head(s).t) THEN <<r>> \o s
  ELSE <<Head(s)>> \o InsertRow(r, Tail(s))

RECURSIVE SortIndex(_)
\* line 89: set_index('Date').sort_index(); rows of equal date keep their order
SortIndex(rows) ==
  IF rows = << >> THEN << >>
  ELSE InsertRow(rows[Len(rows)], SortIndex(SubSeq(rows, 1, Len(rows) - 1)))

Index(series) == [i \in 1..Len(series) |-> series[i].t]

Values(series) == [i \in 1..Len(series) |-> series[i].v]

\* self.data: None, or a frame of rows [t |-> timestamp, v |-> value] (maybe empty)
NoData == [set |-> FALSE, rows |-> << >>]

Frame(rows) == [set |-> TRUE, rows |-> rows]

\* self.model_info = {}
NoInfo == [data_points |-> 0, date_range |-> << >>, date_column |-> 0, value_column |-> 0]

\* lines 99-106 (mean_value and std_value are left out)
DataInfo(series, date_col, value_col) ==
  [data_points  |-> Len(series),
   date_range   |-> <<FmtYMD(series[1].t), FmtYMD(series[Len(series)].t)>>,
   date_column  |-> date_col,
   value_column |-> value_col]

\* a rejection that also empties the slot
RejectedClears(e) ==
  [success |-> FALSE, error |-> e, exc |-> "", stored |-> TRUE,
   data |-> << >>, info |-> NoInfo]

\* what validate_and_process_csv gives: the returned dictionary (success, error), or
\* the exception exc that leaves the try block, and the series and model_info it
\* stores (stored = TRUE)
Rejected(e) ==
  [success |-> FALSE, error |-> e, exc |-> "", stored |-> FALSE,
   data |-> << >>, info |-> NoInfo]

\* lines 91-112: the rows left are counted, stored and described
StoreCleaned(cleaned, sel) ==
  IF TooFewRows(Len(cleaned)) THEN Rejected("Pas assez de donnees valides")
  ELSE [success |-> TRUE, error |-> "", exc |-> "", stored |-> TRUE,
        data |-> cleaned, info |-> DataInfo(cleaned, sel[1], sel[2])]

\* lines 79-89 on the frame line 72 left: the value column is converted, the rows
\* with a missing cell dropped, the rest sorted by date
ConvertValue(frame, sel) ==
  IF ToNumericRaises(frame.cols[sel[2]])
  THEN Rejected("Impossible de convertir en valeurs numeriques")
  ELSE StoreCleaned(SortIndex(DropNa(frame.stamps,
                                     ToNumeric(frame, frame.cols[sel[2]]), 1)),
                    sel)

\* lines 70-89: the columns sel = <<date_col, value_col>> are converted, the date
\* column first
ConvertColumns(table, sel) ==
  IF ToDatetimeRaises(table.cols[sel[1]])
  THEN Rejected("Impossible de convertir en date")
  ELSE ConvertValue(WithDateColumn(table, ToDatetime(table, table.cols[sel[1]])), sel)

\* lines 35-112, the body of the try block of validate_and_process_csv
ValidateBody(table) ==
  IF ~table.ok   \* lines 35-36: decode or read_csv raises
  THEN [Rejected("") EXCEPT !.exc = "Exception"]
  ELSE IF TooFewColumns(Len(table.cols)) THEN Rejected("au moins 2 colonnes")
  ELSE IF TooFewRows(NumRows(table)) THEN Rejected("au moins 10 lignes")
  ELSE ConvertColumns(table, InferColumns(table.cols))

\* the handler of lines 114-118
ValidateHandler(out) ==
  IF out.exc = "" THEN out
  ELSE [out EXCEPT !.exc = "", !.success = FALSE,
                   !.error = "Erreur lors du traitement du fichier"]

\* validate_and_process_csv(csv_content), lines 23-118
Validate(table) == ValidateHandler(ValidateBody(table))

(***************************************************************************)
(* train_model_and_predict, custom_data_service.py:120-227.                *)
(***************************************************************************)
\* the value carried forward to timestamp t: that of the last row at or before t
RECURSIVE LastValueAt(_, _, _)
LastValueAt(rows, t, i) ==
  IF i = 0 THEN NaN
  ELSE IF TsLeq(rows[i].t, t) THEN rows[i].v
  ELSE LastValueAt(rows, t, i - 1)

\* line 154: does self.data.asfreq(freq, method='ffill') raise
\* (reindexing a frame whose index has duplicate labels)
AsfreqRaises(rows) == rows # << >> /\ ~IndexIsUnique(Index(rows))

\* reindex(cal, method='ffill'): one row per timestamp of cal, forward filled
Reindex(rows, cal) ==
  [i \in 1..Len(cal) |-> [t |-> cal[i], v |-> LastValueAt(rows, cal[i], Len(rows))]]

\* line 154: self.data.asfreq(freq, method='ffill') -- the rows on the calendar of
\* freq between the first and the last timestamp, forward filled
Asfreq(rows, f) ==
  IF rows = << >> THEN << >>
  ELSE Reindex(rows, DateRangeBetween(rows[1].t, rows[Len(rows)].t, f))

\* lines 159-166: the specification handed to SARIMAX; period 0 is "no seasonal part"
NonSeasonalOrder == <<1, 1, 1>>

SeasonalPeriod(n) ==
  IF n >= SeasonalMinObs THEN Min2(MaxSeasonalPeriod, n \div 2) ELSE 0

\* a seasonal part whatever the length of the series
SeasonalOrderAlways(n) == <<1, 1, 1, Min2(MaxSeasonalPeriod, n \div 2)>>

SeasonalOrder(n) ==
  IF n >= SeasonalMinObs THEN <<1, 1, 1, SeasonalPeriod(n)>> ELSE <<0, 0, 0, 0>>

NoModel == [set |-> FALSE, order |-> << >>, seasonal_order |-> << >>, endog |-> << >>]

\* lines 161-169: the fitted model, bound to the series it was fitted on
FitModel(rows) ==
  [set |-> TRUE, order |-> NonSeasonalOrder,
   seasonal_order |-> SeasonalOrder(Len(rows)), endog |-> rows]

\* lines 177-184: the start handed to pd.date_range
FutureStart(last_date, f) ==
  IF f = FreqD THEN AddDays(last_date, 1)
  ELSE IF f = FreqW THEN AddDays(last_date, 7)
  ELSE IF f = FreqMS THEN AddMonths(last_date, 1)
  ELSE AddYears(last_date, 1)

\* lines 176-184: the future timestamps
FutureDates(rows, f, steps) == DateRange(FutureStart(rows[Len(rows)].t, f), steps, f)

\* what the library does with a fit request: the fit succeeds, SARIMAX(...).fit raises,
\* or the fit succeeds and the forecast of the fitted model raises
Verdicts == {"ok", "fit_raises", "forecast_raises"}

\* the dictionary a facade returns; absent keys keep the values of NoResult
NoResult ==
  [success |-> FALSE, error |-> "", steps |-> 0,
   dates |-> << >>, n_values |-> 0, n_lower_ci |-> 0, n_upper_ci |-> 0,
   hist_dates |-> << >>, hist_values |-> << >>,
   frequency |-> NoFreq, data_points |-> 0, last_date |-> << >>,
   order |-> << >>, seasonal_order |-> << >>,
   info_error |-> "", plot |-> "absent", model_loaded |-> FALSE, exc |-> ""]

\* {"success": False, "error": e}
Failure(e) == [NoResult EXCEPT !.error = e]

\* no dictionary: the exception e leaves the block (exc is the exception in flight)
Raise(e) == [NoResult EXCEPT !.exc = e]

\* lines 186-215: the success dictionary
CustomResult(rows, f, steps) ==
  [NoResult EXCEPT
     !.success = TRUE, !.steps = steps,
     !.dates = [i \in 1..steps |-> FmtYMD(FutureDates(rows, f, steps)[i])],
     !.n_values = steps, !.n_lower_ci = steps, !.n_upper_ci = steps,
     !.hist_dates = [i \in 1..Len(rows) |-> FmtYMD(rows[i].t)],
     !.hist_values = Values(rows),
     !.frequency = f, !.data_points = Len(rows),
     !.last_date = FmtYMD(rows[Len(rows)].t)]

\* generate_plot, lines 229-270: the image, or "" when rendering raises
GeneratePlot(render_ok) == IF render_ok THEN "image" ELSE ""

(***************************************************************************)
(* The bundled facade: ARIMAModel (arima_model.py) and ForecastService     *)
(* (forecast_service.py).  The persisted pair is the monthly series and    *)
(* the seasonal model scripts/train_model.py fits on it.  In the facade    *)
(* operators below r is what the try block has built so far: a dictionary, *)
(* or (r.exc # "") the exception in flight, which skips the statement.     *)
(***************************************************************************)
FileStates == {"ok", "missing", "corrupt"}

\* AirPassengers: one row per month from 1949-01-01
BundledSeries ==
  [i \in 1..BundledRows |->
     [t |-> AddMonths(<<DayNum(1949, 1, 1), 0>>, i - 1), v |-> 100 + i]]

\* the model train_model.py fits and saves
BundledModel ==
  [set |-> TRUE, order |-> <<1, 1, 1>>, seasonal_order |-> <<1, 1, 1, 12>>,
   endog |-> BundledSeries]

\* a load_model whose handler for the data file leaves the loaded model in place
LoadModelKeepsModel(model_file, data_file) ==
  IF model_file # "ok" THEN [model |-> NoModel, data |-> NoData]
  ELSE [model |-> BundledModel,
        data |-> IF data_file = "ok" THEN Frame(BundledSeries) ELSE NoData]

\* ARIMAModel.__init__ and load_model
LoadModel(model_file, data_file) ==
  IF model_file = "ok" /\ data_file = "ok"
  THEN [model |-> BundledModel, data |-> Frame(BundledSeries)]
  ELSE [model |-> NoModel, data |-> NoData]

\* ARIMAModel.predict
ArimaPredict(arima, steps) ==
  IF ~arima.model.set THEN Raise("ValueError: Modele non charge")
  ELSE [NoResult EXCEPT
          !.dates = [i \in 1..steps |->
                       FmtYM(DateRange(AddMonths(arima.data.rows[Len(arima.data.rows)].t, 1),
                                       steps, FreqMS)[i])],
          !.n_values = steps, !.n_lower_ci = steps, !.n_upper_ci = steps]

\* the calls of self.model.forecast one predict makes
ArimaForecastCalls(arima) == IF ~arima.model.set THEN 0 ELSE 1

\* ARIMAModel.get_historical_data
ArimaHistoricalData(arima, r) ==
  IF r.exc # "" THEN r
  ELSE IF ~arima.data.set THEN Raise("ValueError: Donnees non chargees")
  ELSE [r EXCEPT
          !.hist_dates = [i \in 1..Len(arima.data.rows) |-> FmtYM(arima.data.rows[i].t)],
          !.hist_values = Values(arima.data.rows)]

\* ARIMAModel.get_model_info
ArimaModelInfo(arima, r) ==
  IF r.exc # "" THEN r
  ELSE IF ~arima.model.set THEN [r EXCEPT !.info_error = "Modele non charge"]
  ELSE [r EXCEPT
          !.order = arima.model.order, !.seasonal_order = arima.model.seasonal_order,
          !.data_points = IF arima.data.set THEN Len(arima.data.rows) ELSE 0,
          !.last_date = IF arima.data.set
                        THEN FmtYM(arima.data.rows[Len(arima.data.rows)].t) ELSE << >>]

\* ARIMAModel.generate_plot: no handler of its own
ArimaGeneratePlot(arima, r, render_ok) ==
  IF ~arima.data.set THEN Raise("ValueError: Donnees non chargees")
  ELSE IF ~render_ok THEN Raise("RenderError")
  ELSE [r EXCEPT !.plot = "image"]

\* the return statement of get_forecast: the success dictionary
ForecastReturn(r, steps) ==
  IF r.exc # "" THEN r ELSE [r EXCEPT !.success = TRUE, !.steps = steps]

\* the handler of get_forecast
ForecastHandler(r) ==
  IF r.exc = "" THEN r ELSE Failure(r.exc)

\* ForecastService.get_forecast
GetForecast(arima, steps) ==
  ForecastHandler(
    ForecastReturn(
      ArimaModelInfo(arima, ArimaHistoricalData(arima, ArimaPredict(arima, steps))),
      steps))

\* get_forecast_with_plot after its get_forecast call: a failure is returned as it
\* is, a success gets the plot
PlotStep(arima, r, render_ok) ==
  IF ~r.success THEN r ELSE ArimaGeneratePlot(arima, r, render_ok)

\* the handler of get_forecast_with_plot
PlotHandler(r) ==
  IF r.exc = "" THEN r ELSE Failure(r.exc)

\* ForecastService.get_forecast_with_plot
GetForecastWithPlot(arima, steps, render_ok) ==
  PlotHandler(PlotStep(arima, GetForecast(arima, steps), render_ok))

\* ForecastService.get_model_status
GetModelStatus(arima) ==
  [ArimaModelInfo(arima, NoResult) EXCEPT !.success = TRUE, !.model_loaded = arima.model.set]

(***************************************************************************)
(* The uploads the clients send.  Every table is one date pattern under    *)
(* one header; the value of row i is i.                                    *)
(***************************************************************************)
RECURSIVE GapDays(_, _, _, _)
\* the day numbers of rows i..n, row i being on day start and the gap after row k
\* being gap[k]
GapDays(start, gap, i, n) ==
  IF i > n THEN << >>
  ELSE IF i = n THEN <<start>>
  ELSE <<start>> \o GapDays(start + gap[i], gap, i + 1, n)

\* gaps of a days after the odd rows and b days after the even ones
Alternating(a, b) == [i \in 1..MinRows |-> IF i % 2 = 1 THEN a ELSE b]

\* gaps of one day but for the gap of g days after row k
OneGap(k, g) == [i \in 1..MinRows |-> IF i = k THEN g ELSE 1]

Days(cal) == [i \in 1..Len(cal) |-> cal[i][1]]

Monday2024 == DayNum(2024, 1, 1)

Patterns ==
  <<"daily", "every2", "weekly", "month_start", "month_end", "year_start",
    "mid_month", "daily_gaps", "weeklyish", "sparse", "sparse_short", "duplicate",
    "long_gap">>

\* the calendar patterns: MinRows dates of a frequency from 2024-01-01 on
CalendarDates(f) == Days(DateRange(<<Monday2024, 0>>, MinRows, f))

\* the dates of a pattern, MinRows of them ("daily_gaps": one more, so that the two
\* middle gaps differ)
PatternDates(p) ==
  CASE p = "daily"        -> GapDays(Monday2024, Alternating(1, 1), 1, MinRows)
    [] p = "every2"       -> GapDays(Monday2024, Alternating(2, 2), 1, MinRows)
    [] p = "weekly"       -> GapDays(Monday2024, Alternating(7, 7), 1, MinRows)
    [] p = "month_start"  -> CalendarDates(FreqMS)
    [] p = "month_end"    -> CalendarDates(Freq(1, "ME", 0))
    [] p = "year_start"   -> CalendarDates(FreqYS)
    [] p = "mid_month"    -> [i \in 1..MinRows |-> AddMonths(<<Monday2024 + 14, 0>>, i - 1)[1]]
    [] p = "daily_gaps"   -> GapDays(Monday2024, Alternating(1, 2), 1, MinRows + 1)
    [] p = "weeklyish"    -> GapDays(Monday2024, Alternating(6, 8), 1, MinRows)
    [] p = "sparse"       -> GapDays(Monday2024, Alternating(40, 50), 1, MinRows)
    [] p = "sparse_short" -> GapDays(Monday2024 + 1, Alternating(32, 33), 1, MinRows)
    [] p = "duplicate"    -> GapDays(Monday2024, OneGap(1, 0), 1, MinRows)
    [] OTHER              -> GapDays(Monday2024, OneGap(5, 15), 1, MinRows)

Table(cols, dates, vals) == [ok |-> TRUE, cols |-> cols, dates |-> dates, vals |-> vals]

\* the header 'Date', 'Value'
PlainHeader == <<Col("Date", "date"), Col("Value", "num")>>

\* the table of the dates under the header cols, the value of row i being i
DatedTable(cols, dates) == Table(cols, dates, [i \in 1..Len(dates) |-> i])

PatternTable(p) == DatedTable(PlainHeader, PatternDates(p))

\* n daily rows under the header cols, row `gone` (0: none) lacking its date or value
DailyTable(cols, n, gone, what) ==
  Table(cols,
        [i \in 1..n |-> IF i = gone /\ what = "date" THEN Missing ELSE Monday2024 + i - 1],
        [i \in 1..n |-> IF i = gone /\ what = "value" THEN Missing ELSE i])

\* bytes that do not decode or parse
Garbage == [ok |-> FALSE, cols |-> << >>, dates |-> << >>, vals |-> << >>]

\* the uploads, numbered: one per pattern, then a header that names two columns with
\* a keyword, and the uploads that are turned down
Tables ==
  [i \in 1..Len(Patterns) |-> PatternTable(Patterns[i])]
    \o <<DailyTable(<<Col("Date", "date"), Col("Monthly_Sales", "num")>>,
                    MinRows + 1, 3, "value"),
         DailyTable(PlainHeader, MinRows + 1, 3, "value"),
         DailyTable(PlainHeader, MinRows - 1, 0, "none"),
         DailyTable(PlainHeader, MinRows, 3, "value"),
         DailyTable(PlainHeader, MinRows, 3, "date"),
         DailyTable(<<Col("Date", "date"), Col("Label", "text")>>, MinRows, 0, "none"),
         DailyTable(<<Col("Label", "text"), Col("Value", "num")>>, MinRows, 0, "none"),
         DailyTable(<<Col("Date", "date")>>, MinRows, 0, "none"),
         Garbage,
         DailyTable(<<Col("Label", "text"), Col("Date", "date")>>, MinRows, 0, "none"),
         DailyTable(<<Col("Label", "text"), Col("Time", "date")>>, MinRows, 0, "none")>>

TableIds == DOMAIN Tables

\* the table of a pattern
PatternId(p) == CHOOSE i \in 1..Len(Patterns) : Patterns[i] = p

\* validate_and_process_csv on each upload
Validated == [k \in DOMAIN Tables |-> Validate(Tables[k])]

\* lines 138-154 on a held series, given the frequency settled on: that frequency,
\* whether asfreq raises, and the regularized rows
RegularizeAt(rows, f) ==
  [freq |-> f, raises |-> AsfreqRaises(rows),
   rows |-> IF f = RaisedFreq \/ AsfreqRaises(rows) THEN << >> ELSE Asfreq(rows, f)]

Regularize(rows) == RegularizeAt(rows, DetectFreq(Index(rows)))

\* the series self.data can hold: what an upload stores, and what regularizing a
\* held series gives (k times over)
StoredRows == {v.data : v \in {w \in SeqToSet(Validated) : w.stored}}

RECURSIVE HeldAfter(_, _)
HeldAfter(S, k) ==
  IF k = 0 THEN S ELSE HeldAfter(S \cup {Regularize(r).rows : r \in S}, k - 1)

HeldRows == HeldAfter(StoredRows, MaxRequests)

\* lines 186-215 on a regularized series, for each horizon
WithForecasts(reg) ==
  [freq |-> reg.freq, raises |-> reg.raises, rows |-> reg.rows,
   forecast |-> [steps \in 1..MaxSteps |->
                   IF reg.rows = << >> THEN NoResult
                   ELSE CustomResult(reg.rows, reg.freq, steps)]]

\* Regularize, and CustomResult on the regularized series, tabulated over the series
\* the facade can hold
Regularized == [rows \in HeldRows |-> WithForecasts(Regularize(rows))]

\* what train_model_and_predict leaves: the dictionary (or exception in flight), the
\* facade state, and the number of model.fit and model_fit.forecast calls made
Outcome(r, d, m, nfit, nfc) ==
  [result |-> r, data |-> d, model |-> m, fits |-> nfit, forecasts |-> nfc]

\* lines 137-216, the two nested try blocks without their handlers, given reg, the
\* regularization of the held series.  result.exc names the exception in flight:
\* "outer:..." left the outer block only (lines 138-154), "inner:..." was raised
\* inside the inner block (lines 158-215)
TrainOn(reg, data, model, steps, verdict) ==
  IF reg.freq = RaisedFreq
  THEN Outcome(Raise("outer:ValueError"), data, model, 0, 0)
  ELSE IF reg.raises
  THEN Outcome(Raise("outer:ValueError"), data, model, 0, 0)
  ELSE IF verdict = "fit_raises"
  THEN Outcome(Raise("inner:FitError"), Frame(reg.rows), model, 1, 0)
  ELSE IF verdict = "forecast_raises"
  THEN Outcome(Raise("inner:ForecastError"), Frame(reg.rows), FitModel(reg.rows), 1, 1)
  ELSE IF reg.rows = << >>   \* line 176: self.data.index[-1]
  THEN Outcome(Raise("inner:IndexError"), Frame(reg.rows), FitModel(reg.rows), 1, 1)
  ELSE Outcome(reg.forecast[steps], Frame(reg.rows), FitModel(reg.rows), 1, 1)

TrainBody(data, model, steps, verdict) ==
  TrainOn(Regularized[data.rows], data, model, steps, verdict)

\* try blocks without except clauses: the exception goes on to the caller
TrainHandlersMissing(result) == result

\* the handlers of lines 217-221 (inner) and 223-227 (outer)
TrainHandlers(result) ==
  IF result.exc = "" THEN result
  ELSE IF result.exc \in {"inner:FitError", "inner:ForecastError", "inner:IndexError"}
  THEN Failure("Erreur lors de l'entrainement du modele")
  ELSE Failure("Erreur lors de la prediction")

\* the outcome with the handlers applied to what the try blocks left
Handled(body) == [body EXCEPT !.result = TrainHandlers(body.result)]

\* train_model_and_predict(steps), lines 130-227
TrainModelAndPredict(data, model, steps, verdict) ==
  IF ~data.set
  THEN Outcome(Failure("Aucune donnee chargee"), data, model, 0, 0)
  ELSE Handled(TrainBody(data, model, steps, verdict))

Clients == {"alice", "bob"}

\* what start-up finds of trained_model.pkl and processed_data.pkl
Installations == {<<"ok", "ok">>, <<"missing", "ok">>, <<"ok", "corrupt">>}

\* a behaviour addresses one of the two services (they share no state)
Sessions ==
  {<<"custom", <<"ok", "ok">>>>} \cup {<<"bundled", i>> : i \in Installations}

(***************************************************************************)
(* The serving process: src/app/main.py.  The two services are module      *)
(* globals (lines 26-27) shared by all requests.  Each handler is a        *)
(* coroutine on one event loop; its only await (line 117, reading the      *)
(* uploaded file) comes before it touches a service, and the service       *)
(* methods are synchronous, so each request's use of a service is one      *)
(* atomic step, and requests of different clients interleave step by step. *)
(***************************************************************************)
VARIABLES
  data,        \* custom_data_service.data
  model,       \* custom_data_service.model
  model_info,  \* custom_data_service.model_info
  arima,       \* forecast_service.model: [model, data] of the ARIMAModel
  files,       \* the persisted files found at start-up: <<model file, data file>>
  session,     \* the service this behaviour's requests address
  solver,      \* the library's answer for the series it was last asked to fit
  served,      \* number of requests served
  resp,        \* the last request and what its facade call returned
  run,         \* the forecast calls on each facade since the last upload request
  src,         \* history: the upload (table id) self.data comes from, 0 for none
  mine,        \* history: per client, the last upload of theirs that was stored
  fit_log      \* history: the uploads whose series were handed to model.fit

vars ==
  <<data, model, model_info, arima, files, session, solver, served, resp, run,
    src, mine, fit_log>>

\* request: the specification SARIMAX was constructed with (lines 159-166)
NoSolver == [set |-> FALSE, rows |-> << >>, verdict |-> "ok", request |-> NoModel]

\* a request and what came of it: the operation, the client, the upload or the steps
\* sent, the dictionary returned, and (history) the number of model.fit and forecast
\* calls made, how the chart rendering went ("none": not asked for) and the upload
\* the series used came from
NoResp ==
  [op |-> "none", client |-> "", table |-> 0, steps |-> 0, result |-> NoResult,
   fits |-> 0, forecasts |-> 0, render |-> "none", src |-> 0]

Resp(op, c, k, steps, result, nfit, nfc, render, from) ==
  [op |-> op, client |-> c, table |-> k, steps |-> steps, result |-> result,
   fits |-> nfit, forecasts |-> nfc, render |-> render, src |-> from]

Rendering(asked, render_ok) ==
  IF ~asked THEN "none" ELSE IF render_ok THEN "ok" ELSE "failed"

NoRun == [custom |-> << >>, bundled |-> << >>]

\* the last two calls of a run
Last2(s) == IF Len(s) <= 1 THEN s ELSE <<s[Len(s) - 1], s[Len(s)]>>

Init ==
  /\ data = NoData                  \* custom_data_service.py:19
  /\ model = NoModel                \* :20
  /\ model_info = NoInfo            \* :21
  /\ \E s \in Sessions : session = s[1] /\ files = s[2]
  /\ arima = LoadModel(files[1], files[2])
  /\ solver = NoSolver
  /\ served = 0
  /\ resp = NoResp
  /\ run = NoRun
  /\ src = 0
  /\ mine = [c \in Clients |-> 0]
  /\ fit_log = {}

\* what the upload request shows of the validation result
UploadResult(out) ==
  [NoResult EXCEPT !.success = out.success, !.error = out.error,
                   !.exc = out.exc, !.data_points = out.info.data_points]

\* an upload that takes the slot only when it is empty or holds the client's own
\* series (a slot guarded by its owner)
UploadCsvOwned(c, k) ==
  \E out \in {Validated[k]}, take \in {Validated[k].stored /\ src \in {0, mine[c]}} :
    /\ served < MaxRequests
    /\ served' = served + 1
    /\ data' = IF take THEN Frame(out.data) ELSE data
    /\ model_info' = IF take THEN out.info ELSE model_info
    /\ src' = IF take THEN k ELSE src
    /\ mine' = IF take THEN [mine EXCEPT ![c] = k] ELSE mine
    /\ resp' = Resp("upload", c, k, 0, UploadResult(out), 0, 0, "none", src')
    /\ run' = [run EXCEPT !.custom = << >>]
    /\ UNCHANGED <<model, arima, files, session, solver, fit_log>>

\* POST /upload-csv, main.py:105-153 -> validate_and_process_csv
UploadCsv(c, k) ==
  \E out \in {Validated[k]} :
    /\ served < MaxRequests
    /\ served' = served + 1
    /\ data' = IF out.stored THEN Frame(out.data) ELSE data
    /\ model_info' = IF out.stored THEN out.info ELSE model_info
    /\ src' = IF out.stored THEN k ELSE src
    /\ mine' = IF out.stored THEN [mine EXCEPT ![c] = k] ELSE mine
    /\ resp' = Resp("upload", c, k, 0, UploadResult(out), 0, 0, "none", src')
    /\ run' = [run EXCEPT !.custom = << >>]
    /\ UNCHANGED <<model, arima, files, session, solver, fit_log>>

\* main.py:165-173: a successful result gets the plot
WithPlot(r, render_ok) ==
  IF r.success THEN [r EXCEPT !.plot = GeneratePlot(render_ok)] ELSE r

\* POST /predict-custom-data, main.py:155-186 -> train_model_and_predict, generate_plot
PredictCustomData(c, steps, verdict, render_ok) ==
  \E out \in {TrainModelAndPredict(data, model, steps, verdict)} :
    /\ served < MaxRequests
    /\ (out.fits > 0 /\ solver.set /\ solver.rows = out.data.rows)
         => verdict = solver.verdict
    /\ served' = served + 1
    /\ data' = out.data
    /\ model' = out.model
    /\ solver' = IF out.fits > 0
                 THEN [set |-> TRUE, rows |-> out.data.rows, verdict |-> verdict,
                       request |-> FitModel(out.data.rows)]
                 ELSE solver
    /\ fit_log' = IF out.fits > 0 THEN fit_log \cup {src} ELSE fit_log
    /\ resp' = Resp("predict", c, 0, steps, WithPlot(out.result, render_ok),
                    out.fits, out.forecasts,
                    Rendering(out.result.success, render_ok), src)
    /\ run' = [run EXCEPT !.custom = Last2(Append(run.custom, resp'))]
    /\ UNCHANGED <<model_info, arima, files, session, src, mine>>

\* the dictionary of /api/custom-status
CustomStatusResult(d, info) ==
  [NoResult EXCEPT !.success = TRUE, !.model_loaded = d.set,
                   !.data_points = IF d.set THEN info.data_points ELSE 0]

\* GET /api/custom-status, main.py:188-196
CustomStatus ==
  /\ served < MaxRequests
  /\ served' = served + 1
  /\ resp' = Resp("custom_status", "", 0, 0, CustomStatusResult(data, model_info),
                  0, 0, "none", src)
  /\ UNCHANGED <<data, model, model_info, arima, files, session, solver, run, src, mine, fit_log>>

\* GET /api/forecast/{steps}, main.py:70-81 -> get_forecast
ApiGetForecast(steps) ==
  /\ served < MaxRequests
  /\ served' = served + 1
  /\ resp' = Resp("get_forecast", "", 0, steps, GetForecast(arima, steps),
                  0, ArimaForecastCalls(arima), "none", 0)
  /\ run' = [run EXCEPT !.bundled = Last2(Append(run.bundled, resp'))]
  /\ UNCHANGED <<data, model, model_info, arima, files, session, solver, src, mine, fit_log>>

\* POST /api/forecast and POST /forecast, main.py:57-68, 83-98 -> get_forecast_with_plot
ApiForecastWithPlot(steps, render_ok) ==
  /\ served < MaxRequests
  /\ served' = served + 1
  /\ resp' = Resp("get_forecast_with_plot", "", 0, steps,
                  GetForecastWithPlot(arima, steps, render_ok),
                  0, ArimaForecastCalls(arima),
                  Rendering(GetForecast(arima, steps).success, render_ok), 0)
  /\ UNCHANGED <<data, model, model_info, arima, files, session, solver, run, src, mine, fit_log>>

\* GET /api/status, main.py:52-55 -> get_model_status
ApiStatus ==
  /\ served < MaxRequests
  /\ served' = served + 1
  /\ resp' = Resp("get_model_status", "", 0, 0, GetModelStatus(arima), 0, 0, "none", 0)
  /\ UNCHANGED <<data, model, model_info, arima, files, session, solver, run, src, mine, fit_log>>

\* the requests clients C send with the uploads T
Serve(C, T) ==
  \/ /\ session = "custom"
     /\ \E c \in C, k \in T : UploadCsv(c, k)
  \/ /\ session = "custom"
     /\ \E c \in C, steps \in 1..MaxSteps, verdict \in Verdicts, render_ok \in BOOLEAN :
          PredictCustomData(c, steps, verdict, render_ok)
  \/ /\ session = "custom"
     /\ CustomStatus
  \/ /\ session = "bundled"
     /\ \E steps \in 1..MaxSteps : ApiGetForecast(steps)
  \/ /\ session = "bundled"
     /\ \E steps \in 1..MaxSteps, render_ok \in BOOLEAN : ApiForecastWithPlot(steps, render_ok)
  \/ /\ session = "bundled"
     /\ ApiStatus

Next == Serve(Clients, TableIds)

Spec == Init /\ [][Next]_vars

(***************************************************************************)
(* The properties.                                                         *)
(***************************************************************************)
ForecastOps == {"get_forecast", "get_forecast_with_plot"}

\* the timestamps that continue a series ending at last: one unit of f later, then
\* unit by unit
Continuation(last, f, steps) == RangeFrom(f, Step(f, last), steps)

\* C1: every successful forecast carries exactly `steps` dates, the first one
\* frequency-unit after the last timestamp of the historical series, each next one
\* unit after the one before -- on the upload facade for whatever frequency was
\* selected, on the bundled facade by months
C1_DatesContiguous ==
  /\ (resp.op = "predict" /\ resp.result.success) =>
       resp.result.dates =
         [i \in 1..resp.steps |->
            FmtYMD(Continuation(data.rows[Len(data.rows)].t, resp.result.frequency,
                                resp.steps)[i])]
  /\ (resp.op \in ForecastOps /\ resp.result.success) =>
       resp.result.dates =
         [i \in 1..resp.steps |->
            FmtYM(Continuation(arima.data.rows[Len(arima.data.rows)].t, FreqMS,
                               resp.steps)[i])]

\* two results agree on what a forecast returns
SameForecast(a, b) ==
  /\ a.success = b.success
  /\ a.dates = b.dates
  /\ a.frequency = b.frequency
  /\ a.hist_dates = b.hist_dates
  /\ a.hist_values = b.hist_values

\* C2: two consecutive forecast calls with the same steps and no upload in between
\* return the same dates, the same frequency and the same historical data
C2_ForecastIdempotent ==
  \A f \in {"custom", "bundled"} :
    (Len(run[f]) = 2 /\ run[f][1].steps = run[f][2].steps)
      => SameForecast(run[f][1].result, run[f][2].result)

\* C3: whenever the upload facade stores a fitted model, a series is stored and the
\* model was fitted on that series
C3_PairConsistent == model.set => (data.set /\ model.endog = data.rows)

StrictlyIncreasing(idx) == \A i \in 1..(Len(idx) - 1) : TsLess(idx[i], idx[i + 1])

UniformlySpaced(idx, f) == \A i \in 1..(Len(idx) - 1) : idx[i + 1] = Step(f, idx[i])

\* C4: the series the upload facade holds has strictly increasing timestamps, and
\* the series a successful train_model_and_predict leaves is spaced by exactly one
\* unit of the frequency it reports
C4_HeldSeriesRegular ==
  /\ data.set => StrictlyIncreasing(Index(data.rows))
  /\ (resp.op = "predict" /\ resp.result.success)
       => UniformlySpaced(Index(data.rows), resp.result.frequency)

\* a table of at least 2 columns and MinRows rows, the first column dates, the
\* second numbers
DateThenNumber(table) ==
  /\ table.ok
  /\ Len(table.cols) >= 2
  /\ NumRows(table) >= MinRows
  /\ table.cols[1].kind = "date"
  /\ table.cols[2].kind = "num"

\* C5: an accepted upload whose first column is date-like and whose second is
\* numeric has its first column taken for the dates and its second for the values
C5_FirstTwoColumns ==
  (resp.op = "upload" /\ resp.result.success /\ DateThenNumber(Tables[resp.table]))
    => (model_info.date_column = 1 /\ model_info.value_column = 2)

\* C6: every facade call returns a dictionary -- no exception is left in flight --
\* and a dictionary that reports a failure carries an error message
C6_FailuresReturned ==
  /\ resp.result.exc = ""
  /\ (resp.op # "none" /\ ~resp.result.success) => resp.result.error # ""

\* a training request whose model.fit raised came back as a failure dictionary
C6_FitFailureReturned ==
  /\ resp.op = "predict"
  /\ resp.fits = 1
  /\ resp.forecasts = 0
  /\ ~resp.result.success
  /\ resp.result.error = "Erreur lors de l'entrainement du modele"

\* C7: when a persisted file failed to load the bundled facade holds neither model
\* nor series; a forecast asked of a facade without model or series fails with a
\* message and runs no fit and no forecast; the status then says "not loaded"
C7_NotLoadedFailsFast ==
  /\ files # <<"ok", "ok">> => (~arima.model.set /\ ~arima.data.set)
  /\ (resp.op \in ForecastOps /\ ~arima.model.set)
       => /\ ~resp.result.success
          /\ resp.result.error # ""
          /\ resp.fits = 0
          /\ resp.forecasts = 0
  /\ (resp.op = "get_model_status" /\ ~arima.model.set) => ~resp.result.model_loaded
  /\ (resp.op = "predict" /\ resp.src = 0)
       => /\ ~resp.result.success
          /\ resp.result.error # ""
          /\ resp.fits = 0
          /\ resp.forecasts = 0
          /\ ~model.set
  /\ (resp.op = "custom_status" /\ src = 0) => ~resp.result.model_loaded

\* a forecast was asked of the bundled facade whose data file failed to load
C7_ForecastWithoutModel ==
  /\ resp.op = "get_forecast"
  /\ files = <<"ok", "corrupt">>
  /\ ~resp.result.success
  /\ resp.result.error = "ValueError: Modele non charge"

\* C8: when the forecast succeeded and the chart rendering failed, the result still
\* reports success with its dates and historical data, and only the image is empty
\* or absent
C8_RenderFailureDegrades ==
  resp.render = "failed"
    => /\ resp.result.success
       /\ resp.result.dates # << >>
       /\ resp.result.hist_dates # << >>
       /\ resp.result.plot \in {"", "absent"}

\* the rows of a table that lack no cell
CompleteRows(table) ==
  {i \in 1..NumRows(table) : table.dates[i] # Missing /\ table.vals[i] # Missing}

\* a table with fewer than 2 columns, fewer than MinRows rows, or fewer than MinRows
\* rows that lack no cell
TooSmall(table) ==
  /\ table.ok
  /\ \/ Len(table.cols) < 2
     \/ NumRows(table) < MinRows
     \/ Cardinality(CompleteRows(table)) < MinRows

\* C9: an upload that is too small is turned down with a message and is not stored,
\* and no series handed to model.fit comes from such an upload
C9_SmallTablesRejected ==
  /\ (resp.op = "upload" /\ TooSmall(Tables[resp.table]))
       => /\ ~resp.result.success
          /\ resp.result.error # ""
          /\ resp.fits = 0
          /\ src # resp.table
  /\ \A k \in fit_log : k \in TableIds /\ ~TooSmall(Tables[k])

\* an upload of enough rows, too few of them complete, was turned down after a
\* model had been fitted on an earlier upload
C9_RejectedAfterCleaning ==
  /\ resp.op = "upload"
  /\ NumRows(Tables[resp.table]) >= MinRows
  /\ Len(Tables[resp.table].cols) >= 2
  /\ Cardinality(CompleteRows(Tables[resp.table])) < MinRows
  /\ ~resp.result.success
  /\ fit_log # {}

\* C10: nothing guards the slot -- an accepted upload replaces the held series
\* whoever uploaded the one it held, and a forecast is computed on the series the
\* slot holds whoever asks for it
C10_SlotUnguarded ==
  /\ (resp.op = "upload" /\ resp.result.success)
       => /\ src = resp.table
          /\ mine[resp.client] = resp.table
          /\ data = Frame(Validated[resp.table].data)
  /\ (resp.op = "predict" /\ resp.result.success)
       => /\ resp.src = src
          /\ resp.result.hist_dates = [i \in 1..Len(data.rows) |-> FmtYMD(data.rows[i].t)]

\* a client who uploaded a series got a forecast computed on another client's
\* upload, which had replaced it in the slot
C10_ForecastOnForeignSeries ==
  /\ resp.op = "predict"
  /\ resp.result.success
  /\ mine[resp.client] \notin {0, resp.src}
  /\ Validated[mine[resp.client]].data # Validated[resp.src].data
  /\ \E other \in Clients \ {resp.client} : mine[other] = resp.src

\* the specification the spec prescribes for a series of n observations
PrescribedSeasonal(n) ==
  IF n >= 24 THEN <<1, 1, 1, IF n \div 2 < 12 THEN n \div 2 ELSE 12>>
  ELSE <<0, 0, 0, 0>>

\* C11: a prediction request fits at most once, on the regularized series, with
\* non-seasonal order (1,1,1) and a seasonal part (1,1,1, min(12, n div 2)) exactly
\* when that series has n >= 24 observations; a fit that raises ends the request
\* with a failure, no forecast and no second fit
C11_FitSpecification ==
  resp.op = "predict" =>
    /\ resp.fits \in {0, 1}
    /\ resp.fits = 1 =>
         /\ solver.set
         /\ solver.request.endog = data.rows
         /\ solver.request.order = <<1, 1, 1>>
         /\ solver.request.seasonal_order = PrescribedSeasonal(Len(data.rows))
         /\ solver.verdict = "fit_raises" =>
              /\ ~resp.result.success
              /\ resp.result.error # ""
              /\ resp.forecasts = 0
         /\ solver.verdict # "fit_raises" => model = solver.request
    /\ resp.result.success => resp.fits = 1

\* a seasonal fit (24 observations after regularization) that raised
C11_SeasonalFitFailed ==
  /\ resp.op = "predict"
  /\ resp.fits = 1
  /\ Len(data.rows) >= 24
  /\ solver.request.seasonal_order = <<1, 1, 1, 12>>
  /\ solver.verdict = "fit_raises"
  /\ ~resp.result.success

\* daily, weekly, month-start or year-start, under any alias of the same calendar
\* ('W' and 'W-SUN', 'YS' and 'YS-JAN')
OneOfFour(f) ==
  /\ f.n = 1
  /\ \/ f.kind = "D"
     \/ f.kind = "W" /\ f.anchor \in {0, 7}
     \/ f.kind = "MS"
     \/ f.kind = "YS" /\ f.anchor \in {0, 1}

\* C12: the frequency a successful prediction on the upload facade regularized with
\* and reports is daily, weekly, month-start or year-start
C12_FourFrequencies ==
  (resp.op = "predict" /\ resp.result.success) => OneOfFour(resp.result.frequency)

\* twice the median of the sorted gaps g (a whole number also when the median is not)
TwiceMedian(g) ==
  IF Len(g) % 2 = 1 THEN 2 * g[(Len(g) + 1) \div 2]
  ELSE g[Len(g) \div 2] + g[(Len(g) \div 2) + 1]

\* the class of a median gap of m2 / 2 days: the daily, weekly, monthly or yearly
\* aliases (a calendar frequency detected exactly counts for its class)
MedianClass(m2) ==
  IF m2 <= 2 THEN {"D"} ELSE IF m2 <= 14 THEN {"W"}
  ELSE IF m2 <= 62 THEN {"MS", "ME"} ELSE {"YS", "YE"}

\* f is the frequency the rule gives the index idx: the common gap when all gaps are
\* equal, the class of the median gap otherwise
FollowsRule(idx, f) ==
  IF Cardinality(SeqToSet(Deltas(idx))) = 1
  THEN \/ f.kind = "D" /\ Deltas(idx)[1] = <<f.n, 0>>
       \/ f.kind = "W" /\ Deltas(idx)[1] = <<7 * f.n, 0>>
  ELSE f.n = 1 /\ f.kind \in MedianClass(TwiceMedian(SortAsc(DayDiffs(idx))))

\* C13: on every prediction request on a held series, frequency inference gives a
\* frequency (it never fails), and the frequency a successful request reports is the
\* common gap of the series it started from when all its gaps are equal, and
\* otherwise the class of its median gap m: daily for m <= 1 day, weekly for
\* 1 < m <= 7, month-start for 7 < m <= 31, year-start for m > 31
C13_InferenceRule ==
  [][(resp'.op = "predict" /\ served' = served + 1 /\ data.set)
       => /\ Regularized[data.rows].freq # RaisedFreq
          /\ resp'.result.success
               => FollowsRule(Index(data.rows), resp'.result.frequency)]_vars

\* C14: a prediction request that fails leaves the held series, the fitted model and
\* model_info as they were before the request
C14_FailedTrainKeepsState ==
  [][(resp'.op = "predict" /\ served' = served + 1 /\ ~resp'.result.success)
       => (data' = data /\ model' = model /\ model_info' = model_info)]_vars

\* C15: the series the upload facade holds has at least 10 observations, after any
\* sequence of uploads and prediction requests
C15_HeldSeriesMinimum == data.set => Len(data.rows) >= 10

\* C16: a rejected upload leaves the held series, the fitted model and model_info as
\* they were, and the held series still comes from the last accepted upload
C16_RejectedUploadKeepsState ==
  [][(resp'.op = "upload" /\ served' = served + 1 /\ ~resp'.result.success)
       => /\ data' = data /\ model' = model /\ model_info' = model_info
          /\ src' = src
          /\ resp'.result.error # ""]_vars

\* an upload was rejected while the facade held a series and a model fitted on it
C16_RejectedWhileHolding ==
  /\ resp.op = "upload"
  /\ ~resp.result.success
  /\ src \notin {0, resp.table}
  /\ data = Frame(Validated[src].data)
  /\ model.set
  /\ model_info = Validated[src].info

====
